---- MODULE Spec2Model ----
(***************************************************************************)
(* Model of pathy/gcs.py: the Google Cloud Storage bucket client           *)
(* (BucketClientGCS) and its directory emulation over a flat object        *)
(* namespace: exists, lookup_bucket, get_bucket, scandir and list_blobs.   *)
(*                                                                         *)
(* Strings are sequences of one-character strings, so that startswith,     *)
(* endswith, split and slicing are computed as Python computes them.       *)
(* Python's None is the empty tuple for optional handles, the empty        *)
(* sequence for the optional prefix, "" for the optional delimiter and 0   *)
(* for the optional continuation token.                                    *)
(***************************************************************************)
EXTENDS Integers, Sequences, FiniteSets, TLC

VARIABLES
    buckets,      \* the service: names of the existing buckets, in listing order
    objects,      \* the service: object keys held by bucket MainBucket
    pageSize,     \* the service: results (items + prefixes) per page
    respPages,    \* the service: pages one response iterates before handing out a token
    op,           \* the client operation in progress
    path,         \* its path argument: [present, root, key]
    prefix,       \* its prefix argument
    delimiter,    \* its delimiter argument
    pc,           \* position in the operation
    token,        \* continuation_token
    response,     \* the response being iterated: [pages, next]
    pageIdx,      \* pages of the response consumed so far
    out,          \* what the generator has yielded so far
    result,       \* the value returned (exists, lookup_bucket, get_bucket)
    raised,       \* the exception that left the operation, "" when none
    failed,       \* history: a page fetch raised a client error
    requests,     \* history: the page_token of every client.list_blobs request
    respTokens,   \* history: the next_page_token of every response
    fetched       \* history: the pages fetched, with what each made the generator yield

vars == << buckets, objects, pageSize, respPages, op, path, prefix, delimiter, pc,
           token, response, pageIdx, out, result, raised, failed, requests,
           respTokens, fetched >>

world == << buckets, objects, pageSize, respPages >>

-----------------------------------------------------------------------------
(* Bounds of the model *)

MaxObjects == 3

MaxPageSize == 2

MaxRespPages == 2

-----------------------------------------------------------------------------
(* Strings *)

sep == "/"

NoPrefix == << >>

NoDelimiter == ""

NoToken == 0

None == << >>

StartsWith(s, p) == Len(p) <= Len(s) /\ SubSeq(s, 1, Len(p)) = p

EndsWith(s, c) == Len(s) > 0 /\ s[Len(s)] = c

\* Positions of character c in s.
Positions(s, c) == { i \in 1..Len(s) : s[i] = c }

Max(S) == CHOOSE x \in S : \A y \in S : y <= x

Min(S) == CHOOSE x \in S : \A y \in S : x <= y

\* s.split(c)[-1]
LastSegment(s, c) ==
    IF Positions(s, c) = {} THEN s
    ELSE SubSeq(s, Max(Positions(s, c)) + 1, Len(s))

\* Code point order of the characters used.
CharOrd(c) == CASE c = "/" -> 47 [] c = "a" -> 97 [] c = "b" -> 98 [] c = "c" -> 99

RECURSIVE Less(_, _)
Less(x, y) ==
    IF x = << >> THEN y # << >>
    ELSE IF y = << >> THEN FALSE
    ELSE IF Head(x) = Head(y) THEN Less(Tail(x), Tail(y))
    ELSE CharOrd(Head(x)) < CharOrd(Head(y))

RECURSIVE SortKeys(_)
SortKeys(S) ==
    IF S = {} THEN << >>
    ELSE LET k == CHOOSE m \in S : \A o \in S : m = o \/ Less(m, o)
         IN  << k >> \o SortKeys(S \ {k})

RECURSIVE Flatten(_)
Flatten(ss) == IF ss = << >> THEN << >> ELSE Head(ss) \o Flatten(Tail(ss))

Range(s) == { s[i] : i \in 1..Len(s) }

-----------------------------------------------------------------------------
(* Inputs *)

MainBucket == << "x" >>

OtherBucket == << "y" >>

BucketNames == { MainBucket, OtherBucket }

BucketLists ==
    { << >>, << MainBucket >>, << OtherBucket >>,
      << MainBucket, OtherBucket >>, << OtherBucket, MainBucket >> }

KeyPool ==
    { << "a" >>,
      << "a", "/" >>,
      << "a", "/", "b" >>,
      << "a", "/", "c" >>,
      << "a", "/", "b", "/", "c" >>,
      << "a", "b", "/", "c" >>,
      << "a", "/", "/", "b" >>,
      << "b" >>,
      << "/", "a" >> }

PathKeys ==
    { << >>, << "a" >>, << "a", "b" >>, << "a", "/", "b" >>, << "b" >> }

\* Keys of the paths given to scandir and list_blobs.
ListKeys == { << >>, << "a" >> }

PrefixArgs == { NoPrefix, << "a" >>, << "a", "/" >> }

DelimiterArgs == { NoDelimiter, sep }

Roots == BucketNames \cup { << >> }

NoPath == [present |-> FALSE, root |-> << >>, key |-> << >>]

PathOf(root, key) == [present |-> TRUE, root |-> root, key |-> key]

\* The paths given to exists.
ExistsPaths == { PathOf(root, key) : root \in BucketNames, key \in PathKeys }

\* The paths given to list_blobs, lookup_bucket and get_bucket.
BucketPaths == { PathOf(root, key) : root \in BucketNames, key \in ListKeys }

\* The paths given to scandir: none, one without a root, one in a bucket.
ScandirPaths == { NoPath } \cup { PathOf(root, key) : root \in Roots, key \in ListKeys }

-----------------------------------------------------------------------------
(* The storage service behind storage.Client *)

\* Object keys of a bucket (only MainBucket holds objects).
Contents(root) == IF root = MainBucket /\ root \in Range(buckets) THEN objects ELSE {}

\* One listing result for key k: the key itself, or the common prefix it rolls
\* up into when the rest of the key after the prefix contains the delimiter.
ListingResult(k, pre, delim) ==
    LET rest == SubSeq(k, Len(pre) + 1, Len(k))
        cut  == Positions(rest, delim)
    IN  IF delim # NoDelimiter /\ cut # {}
        THEN [kind |-> "prefix", name |-> SubSeq(k, 1, Len(pre) + Min(cut))]
        ELSE [kind |-> "item", name |-> k]

RECURSIVE Dedup(_)
Dedup(s) ==
    IF Len(s) <= 1 THEN s
    ELSE IF s[1] = s[2] THEN Dedup(Tail(s))
    ELSE << Head(s) >> \o Dedup(Tail(s))

\* The results of a listing in key order; a common prefix is reported once.
ListingResults(root, pre, delim) ==
    LET keys == SortKeys({ k \in Contents(root) : StartsWith(k, pre) })
    IN  Dedup([ i \in 1..Len(keys) |-> ListingResult(keys[i], pre, delim) ])

PageOf(rs) ==
    [ prefixes |-> [ i \in 1..Len(SelectSeq(rs, LAMBDA r : r.kind = "prefix")) |->
                        SelectSeq(rs, LAMBDA r : r.kind = "prefix")[i].name ],
      items    |-> [ i \in 1..Len(SelectSeq(rs, LAMBDA r : r.kind = "item")) |->
                        SelectSeq(rs, LAMBDA r : r.kind = "item")[i].name ] ]

\* All pages of a listing: pageSize results per page, one empty page when
\* there is no result.
AllPages(root, pre, delim) ==
    LET rs == ListingResults(root, pre, delim)
        n  == IF Len(rs) = 0 THEN 1 ELSE (Len(rs) + pageSize - 1) \div pageSize
    IN  [ p \in 1..n |->
            PageOf(SubSeq(rs, (p - 1) * pageSize + 1, Min({p * pageSize, Len(rs)}))) ]

\* client.list_blobs(root, prefix=, delimiter=, page_token=): the pages its
\* iterator walks and the token it holds once they are exhausted. A token is
\* the number of the page the next response starts with.
ClientListBlobs(root, pre, delim, tok) ==
    LET all   == AllPages(root, pre, delim)
        first == IF tok = NoToken THEN 1 ELSE tok
        last  == Min({first + respPages - 1, Len(all)})
    IN  [ pages |-> SubSeq(all, first, last),
          first |-> first,
          next  |-> IF last < Len(all) THEN last + 1 ELSE NoToken ]

\* client.bucket(name): a factory, it builds a handle without asking the
\* service whether the bucket exists and never returns None.
ClientBucket(root) == << [name |-> root] >>

-----------------------------------------------------------------------------
(* pathy/gcs.py: BucketClientGCS *)

\* str(path.key)
KeyName(p) == p.key

\* if continuation_token:
Truthy(tok) == tok # NoToken

\* lookup_bucket: the BucketGCS wrapper, or None
LookupBucketOf(p) ==
    LET native_bucket == ClientBucket(p.root)
    IN  IF native_bucket # None
        THEN << [name |-> p.root, bucket |-> native_bucket[1]] >>
        ELSE None

\* get_bucket: the BucketGCS wrapper, or the exception raised
GetBucketOf(p) ==
    LET native_bucket == ClientBucket(p.root)
    IN  IF native_bucket # None
        THEN [value |-> << [name |-> p.root, bucket |-> native_bucket[1]] >>, raises |-> ""]
        ELSE [value |-> None, raises |-> "FileNotFoundError"]

\* Mutant of ExistsMatch: any key that starts with the path's key matches.
ExistsMatch_PlainPrefix(name, key_name) ==
    \/ name = key_name
    \/ StartsWith(name, key_name)

\* exists: the test applied to each listed object name
ExistsMatch(name, key_name) ==
    \/ name = key_name
    \/ StartsWith(name, key_name \o << sep >>)

\* Mutant of FolderName: the trailing separator is not stripped.
FolderName_NoStrip(folder) == LastSegment(folder, sep)

\* scandir: the name of a common prefix
FolderName(folder) ==
    LET full_name == IF EndsWith(folder, sep)
                     THEN SubSeq(folder, 1, Len(folder) - 1)
                     ELSE folder
    IN  LastSegment(full_name, sep)

\* scandir: the name of an item
ItemName(item) == LastSegment(item, sep)

\* Mutant of KeepName: the empty name is not filtered out.
KeepName_Always(name) == TRUE

\* if name:
KeepName(name) == name # << >>

RECURSIVE FolderEntries(_)
FolderEntries(prefixes) ==
    IF prefixes = << >> THEN << >>
    ELSE (IF KeepName(FolderName(Head(prefixes)))
          THEN << [name |-> FolderName(Head(prefixes)), is_dir |-> TRUE, raw |-> None] >>
          ELSE << >>) \o FolderEntries(Tail(prefixes))

RECURSIVE ItemEntries(_)
ItemEntries(items) ==
    IF items = << >> THEN << >>
    ELSE (IF KeepName(ItemName(Head(items)))
          THEN << [name |-> ItemName(Head(items)), is_dir |-> FALSE, raw |-> Head(items)] >>
          ELSE << >>) \o ItemEntries(Tail(items))

\* Mutant of ScandirPage: the items of a page are yielded before its prefixes.
ScandirPage_FilesFirst(page) == ItemEntries(page.items) \o FolderEntries(page.prefixes)

\* scandir: what one page makes the generator yield
ScandirPage(page) == FolderEntries(page.prefixes) \o ItemEntries(page.items)

\* Mutant of ListBlobsPage: records are named as scandir names its entries,
\* and dropped when that name is empty.
ListBlobsPage_LastSegment(page) ==
    LET es == ItemEntries(page.items)
    IN  [ i \in 1..Len(es) |-> [name |-> es[i].name, raw |-> es[i].raw] ]

\* list_blobs: what one page makes the generator yield
ListBlobsPage(page) ==
    [ i \in 1..Len(page.items) |-> [name |-> page.items[i], raw |-> page.items[i]] ]

\* scandir without a bucket: one directory entry per bucket
BucketEntries(bs) == [ i \in 1..Len(bs) |-> [name |-> bs[i], is_dir |-> TRUE, raw |-> None] ]

\* Mutant of ListsBuckets: only the absent path lists the buckets.
ListsBuckets_PathNoneOnly(p) == ~p.present

\* scandir: if path is None or not path.root
ListsBuckets(p) == ~p.present \/ p.root = << >>

\* The delimiter of the request: scandir passes sep, list_blobs its argument.
RequestDelimiter == IF op = "scandir" THEN sep ELSE delimiter

\* Mutant of LoopEnds: the loop stops after the first response.
LoopEnds_Always(resp) == TRUE

\* if response.next_page_token is None: break
LoopEnds(resp) == resp.next = NoToken

EmptyResponse == [pages |-> << >>, first |-> 0, next |-> NoToken]

-----------------------------------------------------------------------------
(* State machine *)

Init ==
    /\ buckets \in BucketLists
    /\ objects \in { S \in SUBSET KeyPool : Cardinality(S) <= MaxObjects }
    /\ (MainBucket \notin Range(buckets) => objects = {})
    /\ pageSize \in 1..MaxPageSize
    /\ respPages \in 1..MaxRespPages
    /\ op = "none"
    /\ path = NoPath
    /\ prefix = NoPrefix
    /\ delimiter = NoDelimiter
    /\ pc = "idle"
    /\ token = NoToken
    /\ response = EmptyResponse
    /\ pageIdx = 0
    /\ out = << >>
    /\ result = "unset"
    /\ raised = ""
    /\ failed = FALSE
    /\ requests = << >>
    /\ respTokens = << >>
    /\ fetched = << >>

history == << failed, requests, respTokens, fetched >>

\* list_blobs up to its loop: continuation_token = None, the bucket lookup.
\* exists consumes list_blobs(path) and answers False when it yields nothing.
StartListBlobs(caller, p, pre, delim) ==
    /\ pc = "idle"
    /\ op' = caller
    /\ path' = p
    /\ prefix' = pre
    /\ delimiter' = delim
    /\ token' = NoToken
    /\ IF LookupBucketOf(p) = None
       THEN /\ pc' = "done"
            /\ result' = IF caller = "exists" THEN "False" ELSE result
       ELSE /\ pc' = "request"
            /\ UNCHANGED result
    /\ UNCHANGED << world, response, pageIdx, out, raised, history >>

CallExists ==
    \E p \in ExistsPaths :
        StartListBlobs("exists", p, NoPrefix, NoDelimiter)

CallListBlobs ==
    \E p \in BucketPaths, pre \in PrefixArgs, delim \in DelimiterArgs :
        StartListBlobs("list_blobs", p, pre, delim)

CallScandir ==
    \E p \in ScandirPaths,
       pre \in PrefixArgs, delim \in DelimiterArgs :
        /\ pc = "idle"
        /\ op' = "scandir"
        /\ path' = p
        /\ prefix' = pre
        /\ delimiter' = delim
        /\ token' = NoToken
        /\ IF ListsBuckets(p)
           THEN /\ out' = out \o BucketEntries(buckets)
                /\ pc' = "done"
           ELSE /\ pc' = IF LookupBucketOf(p) = None THEN "done" ELSE "request"
                /\ UNCHANGED out
        /\ UNCHANGED << world, response, pageIdx, result, raised, history >>

\* response = self.client.list_blobs(...)
Request ==
    /\ pc = "request"
    /\ response' = IF Truthy(token)
                   THEN ClientListBlobs(path.root, prefix, RequestDelimiter, token)
                   ELSE ClientListBlobs(path.root, prefix, RequestDelimiter, NoToken)
    /\ requests' = Append(requests, IF Truthy(token) THEN token ELSE NoToken)
    /\ pageIdx' = 0
    /\ pc' = "pages"
    /\ UNCHANGED << world, op, path, prefix, delimiter, token, out, result, raised,
                    failed, respTokens, fetched >>

\* for page in response.pages: the page arrives and its entries are yielded;
\* exists returns True at the first record that matches.
FetchPage ==
    /\ pc = "pages"
    /\ pageIdx < Len(response.pages)
    /\ path.root \in Range(buckets)
    /\ LET page    == response.pages[pageIdx + 1]
           yielded == IF op = "scandir" THEN ScandirPage(page) ELSE ListBlobsPage(page)
           found   == op = "exists" /\
                      \E i \in 1..Len(yielded) : ExistsMatch(yielded[i].name, KeyName(path))
       IN  /\ out' = out \o yielded
           /\ fetched' = Append(fetched, [no |-> response.first + pageIdx,
                                          page |-> page, yielded |-> yielded])
           /\ pageIdx' = pageIdx + 1
           /\ pc' = IF found THEN "done" ELSE pc
           /\ result' = IF found THEN "True" ELSE result
    /\ UNCHANGED << world, op, path, prefix, delimiter, token, response, raised,
                    failed, requests, respTokens >>

\* for page in response.pages: the fetch raises a client error (always, when
\* the bucket does not exist). exists catches it; the generators do not.
FetchFails ==
    /\ pc = "pages"
    /\ pageIdx < Len(response.pages)
    /\ failed' = TRUE
    /\ IF op = "exists"
       THEN /\ result' = "False"
            /\ pc' = "done"
            /\ UNCHANGED raised
       ELSE /\ raised' = "ClientError"
            /\ pc' = "raised"
            /\ UNCHANGED result
    /\ UNCHANGED << world, op, path, prefix, delimiter, token, response, pageIdx, out,
                    requests, respTokens, fetched >>

\* The pages of the response are exhausted: break, or loop with its token.
EndOfPages ==
    /\ pc = "pages"
    /\ pageIdx = Len(response.pages)
    /\ respTokens' = Append(respTokens, response.next)
    /\ IF LoopEnds(response)
       THEN /\ pc' = "done"
            /\ result' = IF op = "exists" THEN "False" ELSE result
            /\ UNCHANGED token
       ELSE /\ token' = response.next
            /\ pc' = "request"
            /\ UNCHANGED result
    /\ UNCHANGED << world, op, path, prefix, delimiter, response, pageIdx, out, raised,
                    failed, requests, fetched >>

CallLookupBucket ==
    \E p \in BucketPaths :
        /\ pc = "idle"
        /\ op' = "lookup_bucket"
        /\ path' = p
        /\ result' = IF LookupBucketOf(p) = None THEN "None" ELSE "BucketGCS"
        /\ pc' = "done"
        /\ UNCHANGED << world, prefix, delimiter, token, response, pageIdx, out, raised,
                        history >>

CallGetBucket ==
    \E p \in BucketPaths :
        /\ pc = "idle"
        /\ op' = "get_bucket"
        /\ path' = p
        /\ LET got == GetBucketOf(p)
           IN  /\ raised' = got.raises
               /\ result' = IF got.raises = "" THEN "BucketGCS" ELSE result
               /\ pc' = IF got.raises = "" THEN "done" ELSE "raised"
        /\ UNCHANGED << world, prefix, delimiter, token, response, pageIdx, out, history >>

Next ==
    \/ CallExists
    \/ CallListBlobs
    \/ CallScandir
    \/ CallLookupBucket
    \/ CallGetBucket
    \/ Request
    \/ FetchPage
    \/ FetchFails
    \/ EndOfPages

Spec == Init /\ [][Next]_vars

Terminated == pc \in { "done", "raised" }

-----------------------------------------------------------------------------
(* Properties *)

OutNames == [ i \in 1..Len(out) |-> out[i].name ]

BucketScan == op = "scandir" /\ path.present /\ path.root # << >>

\* C1: when the bucket lookup succeeds and the listing raises no error,
\* exists(path) is true exactly when some object key of the bucket equals the
\* path's key or starts with key + separator; a key that is only a partial
\* segment of object keys gives false.
C1_ExistsIffKeyOrParent ==
    (op = "exists" /\ pc = "done" /\ ~failed) =>
        (result = "True" <=>
            \E K \in Contents(path.root) :
                \/ K = path.key
                \/ /\ Len(K) > Len(path.key)
                   /\ SubSeq(K, 1, Len(path.key)) = path.key
                   /\ K[Len(path.key) + 1] = "/")

\* exists("x/a") is False in a bucket whose only object is "ab/c".
C1_Witness ==
    /\ op = "exists" /\ pc = "done" /\ ~failed
    /\ path.key = << "a" >>
    /\ objects = { << "a", "b", "/", "c" >> }
    /\ result = "False"

\* C2: for a root-only path (empty key) exists returns true whatever the
\* bucket holds.
C2_RootAlwaysExists ==
    (op = "exists" /\ pc = "done" /\ ~failed /\ path.key = << >>) => result = "True"

\* C3: a client error raised by a page fetch never leaves a listing call:
\* scandir and list_blobs yield nothing and exists returns false.
C3_ClientErrorSwallowed ==
    failed =>
        /\ raised = ""
        /\ (op \in { "scandir", "list_blobs" } => out = << >>)
        /\ (op = "exists" => result = "False")

\* C4: for a root naming a bucket that does not exist, get_bucket raises
\* not-found and lookup_bucket returns None without raising.
C4_MissingBucketNotFound ==
    (pc # "idle" /\ path.root \notin Range(buckets)) =>
        /\ (op = "get_bucket" => raised = "FileNotFoundError")
        /\ (op = "lookup_bucket" => result = "None" /\ raised = "")

\* C5: list_blobs on an existing bucket yields one record per item the pages
\* return, in page order; called without prefix and delimiter that is every
\* object of the bucket exactly once, nested keys included, however the
\* listing is cut into pages and responses.
C5_ListBlobsEveryObjectOnce ==
    (op = "list_blobs" /\ pc = "done") =>
        LET pages == AllPages(path.root, prefix, delimiter)
        IN  /\ OutNames = Flatten([ p \in 1..Len(pages) |-> pages[p].items ])
            /\ (prefix = NoPrefix /\ delimiter = NoDelimiter) =>
                   /\ Range(OutNames) = Contents(path.root)
                   /\ Len(out) = Cardinality(Contents(path.root))
                   /\ \A i, j \in 1..Len(out) : i < j => Less(out[i].name, out[j].name)

\* Three objects, one nested two levels deep, listed over two responses.
C5_Witness ==
    /\ op = "list_blobs" /\ pc = "done"
    /\ prefix = NoPrefix /\ delimiter = NoDelimiter
    /\ Len(out) = 3
    /\ << "a", "/", "b", "/", "c" >> \in Range(OutNames)
    /\ Len(requests) = 2
    /\ Len(fetched) = 3

\* C6: scandir without a path, or with a path whose root is empty, yields one
\* directory entry per bucket of list_buckets, in listing order, whatever
\* prefix and delimiter are, and requests no object listing.
C6_RootlessScandirListsBuckets ==
    (op = "scandir" /\ (~path.present \/ path.root = << >>)) =>
        /\ pc = "done"
        /\ Len(out) = Len(buckets)
        /\ \A i \in 1..Len(out) : out[i].name = buckets[i] /\ out[i].is_dir
        /\ requests = << >>
        /\ fetched = << >>

C6_Witness ==
    /\ op = "scandir" /\ pc = "done"
    /\ path.present /\ path.root = << >>
    /\ prefix # NoPrefix /\ delimiter # NoDelimiter
    /\ Len(out) = 2

\* Every object key lies under the first segment seg.
AllUnder(keys, seg) ==
    /\ keys # {}
    /\ seg # << >>
    /\ Positions(seg, "/") = {}
    /\ \A k \in keys : StartsWith(k, seg \o << "/" >>)

\* C7: scandir over a bucket whose object keys all lie under the same first
\* segment yields exactly one directory entry, named by that segment, and no
\* file entry.
C7_ScandirFoldsNestedKeys ==
    (BucketScan /\ pc = "done" /\ prefix = NoPrefix) =>
        \A k \in Contents(path.root) :
            \A n \in 1..Len(k) :
                AllUnder(Contents(path.root), SubSeq(k, 1, n)) =>
                    /\ Len(out) = 1
                    /\ out[1].name = SubSeq(k, 1, n)
                    /\ out[1].is_dir

\* Objects a/b and a/c, one result per page.
C7_Witness ==
    /\ BucketScan /\ pc = "done" /\ prefix = NoPrefix
    /\ objects = { << "a", "/", "b" >>, << "a", "/", "c" >> }
    /\ Len(out) = 1
    /\ out[1].is_dir

DirsOf(es) == SelectSeq(es, LAMBDA e : e.is_dir)

FilesOf(es) == SelectSeq(es, LAMBDA e : ~e.is_dir)

\* C8: scandir keeps the listing's order: the entries of an earlier page come
\* before those of a later page, within a page the directory entries come
\* before the file entries, each kind in the order the page holds it, and
\* nothing is sorted or removed across pages.
C8_ScandirKeepsListingOrder ==
    BucketScan =>
        /\ out = Flatten([ i \in 1..Len(fetched) |-> fetched[i].yielded ])
        /\ \A i \in 1..Len(fetched) :
              LET y  == fetched[i].yielded
                  pg == fetched[i].page
              IN  /\ i > 1 => fetched[i - 1].no < fetched[i].no
                  /\ \A a, b \in 1..Len(y) : (a < b /\ y[b].is_dir) => y[a].is_dir
                  /\ [ a \in 1..Len(FilesOf(y)) |-> FilesOf(y)[a].raw ]
                       = SelectSeq(pg.items, LAMBDA k : ItemName(k) # << >>)
                  /\ [ a \in 1..Len(DirsOf(y)) |-> DirsOf(y)[a].name ]
                       = SelectSeq([ a \in 1..Len(pg.prefixes) |-> FolderName(pg.prefixes[a]) ],
                                   LAMBDA n : n # << >>)

\* Two pages, one of them with a directory and a file, and the name of an
\* entry of the first page yielded again.
C8_Witness ==
    /\ BucketScan /\ pc = "done"
    /\ Len(fetched) >= 2
    /\ \E i \in 1..Len(fetched) :
          DirsOf(fetched[i].yielded) # << >> /\ FilesOf(fetched[i].yielded) # << >>
    /\ \E i, j \in 1..Len(out) : i < j /\ out[i].name = out[j].name

\* The name scandir computes for a common prefix is empty: nothing precedes
\* its trailing separator but another separator.
EmptyFolderName(p) ==
    LET q == IF p # << >> /\ p[Len(p)] = "/" THEN SubSeq(p, 1, Len(p) - 1) ELSE p
    IN  q = << >> \/ q[Len(q)] = "/"

\* The last segment of an object key is empty: the key ends with the separator.
EmptyLastSegment(k) == k = << >> \/ k[Len(k)] = "/"

\* C9, as stated: every yielded name is non-empty and, in scandir and in
\* list_blobs alike, a common prefix or an object key whose last segment is
\* empty produces no entry.
C9_EmptySegmentNeverYielded ==
    (BucketScan \/ op = "list_blobs") =>
        /\ \A i \in 1..Len(out) : out[i].name # << >>
        /\ \A i \in 1..Len(fetched) :
              \A k \in Range(fetched[i].page.items) :
                  EmptyLastSegment(k) =>
                      \A a \in 1..Len(fetched[i].yielded) : fetched[i].yielded[a].raw # k

\* C9, amended: every name yielded by scandir and by list_blobs is non-empty.
\* scandir yields no entry for a common prefix whose name is empty nor for an
\* object key that ends with the separator, and one entry for every other;
\* list_blobs yields one record for every item of a page, named by its full
\* key, also when the key ends with the separator.
C9_NamesNonEmpty ==
    /\ (op \in { "scandir", "list_blobs" }) => \A i \in 1..Len(out) : out[i].name # << >>
    /\ BucketScan =>
          \A i \in 1..Len(fetched) :
              LET y  == fetched[i].yielded
                  pg == fetched[i].page
              IN  /\ [ a \in 1..Len(FilesOf(y)) |-> FilesOf(y)[a].raw ]
                       = SelectSeq(pg.items, LAMBDA k : ~EmptyLastSegment(k))
                  /\ Len(DirsOf(y))
                       = Len(SelectSeq(pg.prefixes, LAMBDA p : ~EmptyFolderName(p)))
    /\ op = "list_blobs" =>
          \A i \in 1..Len(fetched) :
              [ a \in 1..Len(fetched[i].yielded) |-> fetched[i].yielded[a].name ]
                  = fetched[i].page.items

\* scandir with prefix "a/" over a bucket holding the key "a/" itself and a
\* key starting with the separator.
C9_Witness ==
    /\ BucketScan /\ pc = "done"
    /\ prefix = << "a", "/" >>
    /\ \E i \in 1..Len(fetched) : << "a", "/" >> \in Range(fetched[i].page.items)
    /\ Len(out) >= 1

\* What C10 says of every state of a listing.
PaginationFollowsTokens ==
    (op \in { "scandir", "list_blobs", "exists" } /\ path.present /\ path.root # << >>) =>
        LET pages == AllPages(path.root, prefix, RequestDelimiter)
        IN  /\ requests # << >> => requests[1] = NoToken
            /\ \A i \in 2..Len(requests) :
                  requests[i] = respTokens[i - 1] /\ respTokens[i - 1] # NoToken
            /\ Len(fetched) <= Len(pages)
            /\ \A i \in 1..Len(fetched) :
                  fetched[i].no = i /\ fetched[i].page = pages[i]
            /\ (pc = "done" /\ ~failed /\ op # "exists") =>
                  /\ Len(fetched) = Len(pages)
                  /\ Len(respTokens) = Len(requests)
                  /\ \A i \in 1..Len(respTokens) :
                        (respTokens[i] = NoToken) <=> (i = Len(respTokens))

Running == pc \in { "request", "pages" }

\* A step of the loop is possible: Request asks for nothing but its position;
\* in the pages of a response either a page is left, whose fetch arrives or
\* fails, or the pages are exhausted (the guards of FetchFails and EndOfPages).
CanStep ==
    \/ pc = "request"
    \/ pc = "pages" /\ pageIdx < Len(response.pages)
    \/ pc = "pages" /\ pageIdx = Len(response.pages)

\* Requests made, pages fetched and responses exhausted so far.
Progress == Len(requests) + Len(fetched) + Len(respTokens)

\* C10: over a listing of finitely many pages the pagination loop of scandir
\* and list_blobs terminates: each follow-up request carries the token of the
\* previous response, every page is fetched exactly once and in order, and
\* the sequence ends after the first response without a token. Termination:
\* while the loop runs a step is always possible, every step either ends the
\* call or raises Progress, and Progress never exceeds three times the number
\* of pages of the listing.
C10_PaginationTerminates ==
    /\ [](/\ PaginationFollowsTokens
          /\ Running => CanStep
          /\ Running =>
                Progress <= 3 * Len(AllPages(path.root, prefix, RequestDelimiter)))
    /\ [][Running => (Terminated' \/ (Running' /\ Progress' > Progress))]_vars

\* A listing of three pages walked in two responses.
C10_Witness ==
    /\ op \in { "scandir", "list_blobs" } /\ pc = "done" /\ ~failed
    /\ Len(requests) = 2
    /\ requests[2] = 3
    /\ Len(fetched) = 3

====
